---------------------------- MODULE Spec2Model ----------------------------
(***************************************************************************)
(* A model of the two scripts of ai-ocr-slots-automation:                  *)
(*                                                                         *)
(*   ollama-ocr-slots/score_reader.py    read_game_score_custom_crop       *)
(*   auto-gameplay-slots/auto_play.py    find_canvas_in_frames, main       *)
(*                                                                         *)
(* Python strings that the code inspects (the OCR text, the candidates)    *)
(* are sequences of one-character strings.  The fixed messages the code    *)
(* returns are one-element sequences holding the whole message, so that a  *)
(* message never equals a candidate.  A Python value is a record           *)
(* [t |-> type name, v |-> the characters].                                *)
(***************************************************************************)
EXTENDS Integers, Sequences, FiniteSets

VARIABLES
    (* ---- read_game_score_custom_crop ---- *)
    r_pc,                    \* position in read_game_score_custom_crop
    h, w,                    \* cv_image_original.shape (0 before imread)
    x1_crop, y1_crop,        \* the crop rectangle
    x2_crop, y2_crop,
    sliced,                  \* cv_image_original[y1:y2, x1:x2] was taken
    written,                 \* cropped_score_region.png was written
    ocr_called,              \* reader.readtext was called
    results,                 \* what reader.readtext returned
    full_ocr_text,           \* " ".join(string_results)
    numbers_candidates,      \* re.findall(...)
    final_score_candidates,  \* the candidates inside the length window
    ret,                     \* the value the function returned
    (* ---- auto_play.py: the page ---- *)
    frame_count,             \* the number of frames of the page, frame 1 the main frame
    child_frames,            \* frame.child_frames of every frame, in attach order
    canvas,                  \* what probing the first canvas of a frame gives
    (* ---- find_canvas_in_frames ---- *)
    f_pc,                    \* "idle", "running" or "returned"
    frames_arg,              \* the list the outermost call was given
    call_stack,              \* the activations of find_canvas_in_frames, innermost last
    retval,                  \* the value the last finished activation returned
    probed,                  \* the frames probed so far, in order
    (* ---- main ---- *)
    m_pc,                    \* position in main
    log,                     \* the browser steps main has performed, in order
    box,                     \* what canvas.bounding_box() gave: "unset", "box" or "none"
    browser,                 \* "none" before the launch, then "open", then "closed"
    closings                 \* how many times an open browser was closed

reader_vars == <<r_pc, h, w, x1_crop, y1_crop, x2_crop, y2_crop, sliced,
                 written, ocr_called, results, full_ocr_text,
                 numbers_candidates, final_score_candidates, ret>>

page_vars == <<frame_count, child_frames, canvas>>
search_vars == <<f_pc, frames_arg, call_stack, retval, probed>>
main_vars == <<m_pc, log, box, browser, closings>>
auto_vars == <<page_vars, search_vars, main_vars>>

vars == <<reader_vars, auto_vars>>

-----------------------------------------------------------------------------
(* Bounds of the model *)

\* longest recognised text drawn for the selection heuristic (one digit)
MaxTextLen == 10
\* longest recognised text drawn with two different digits
MaxTwoDigitLen == 5
\* longest recognised text drawn when the whole function runs
MaxOcrLen == 3
\* largest image width and height drawn
MaxDim == 10
\* largest number of frames of a page
MaxFrames == 4

-----------------------------------------------------------------------------
(* Python values *)

PyNone == [t |-> "NoneType", v |-> <<>>]
PyStr(s) == [t |-> "str", v |-> s]
Unset == [t |-> "unset", v |-> <<>>]

\* the values find_canvas_in_frames returns: None, or the tuple (frame,
\* canvas), the canvas being the first canvas locator of that frame
SearchNone == [t |-> "NoneType", frame |-> 0]
SearchPair(f) == [t |-> "tuple", frame |-> f]
NoValue == [t |-> "unset", frame |-> 0]

MSG_INVALID_CROP == <<"Invalid custom crop region.">>
MSG_EMPTY_CROP == <<"Empty cropped image after crop.">>
MSG_NO_SCORE == <<"No suitable score found.">>
MSG_NO_TEXT == <<"No text found by EasyOCR.">>

-----------------------------------------------------------------------------
(* Characters *)

Digit == {"0", "1", "2", "3", "4", "5", "6", "7", "8", "9"}
Point == "."
Space == " "

IsDigit(c) == c \in Digit

\* s[p+1] for an offset p, "" outside the string
CharAfter(s, p) == IF p + 1 \in 1..Len(s) THEN s[p + 1] ELSE ""

\* \w on the characters the text can hold: a digit is a word character,
\* '.' and ' ' are not, and neither is the outside of the string
IsWordChar(c) == IsDigit(c)

\* \b at offset p: exactly one of the characters around p is a word character
WordBoundary(s, p) == IsWordChar(CharAfter(s, p - 1)) # IsWordChar(CharAfter(s, p))

Max(S) == CHOOSE x \in S : \A y \in S : y <= x

-----------------------------------------------------------------------------
(* re.findall(r'\b\d+\.\d{2}\b|\b\d+\b', full_ocr_text) *)

NoMatch == -1

\* the number of consecutive digits of s after offset p
RECURSIVE DigitRun(_, _)
DigitRun(s, p) ==
    IF IsDigit(CharAfter(s, p)) THEN 1 + DigitRun(s, p + 1) ELSE 0

\* the decimal branch without its closing \b
DecimalMatch_NoClosingBoundary(s, p) ==
    LET ks == {k \in 1..DigitRun(s, p) :
                  /\ CharAfter(s, p + k) = Point
                  /\ IsDigit(CharAfter(s, p + k + 1))
                  /\ IsDigit(CharAfter(s, p + k + 2))}
    IN  IF WordBoundary(s, p) /\ ks # {} THEN p + Max(ks) + 3 ELSE NoMatch

\* \b\d+\.\d{2}\b tried at offset p: the offset where the match ends, or
\* NoMatch.  \d+ is greedy and gives digits back one at a time, so the
\* longest digit count k that lets the rest of the pattern match is taken.
DecimalMatch(s, p) ==
    LET ks == {k \in 1..DigitRun(s, p) :
                  /\ CharAfter(s, p + k) = Point
                  /\ IsDigit(CharAfter(s, p + k + 1))
                  /\ IsDigit(CharAfter(s, p + k + 2))
                  /\ WordBoundary(s, p + k + 3)}
    IN  IF WordBoundary(s, p) /\ ks # {} THEN p + Max(ks) + 3 ELSE NoMatch

\* \b\d+\b tried at offset p
IntegerMatch(s, p) ==
    LET ks == {k \in 1..DigitRun(s, p) : WordBoundary(s, p + k)}
    IN  IF WordBoundary(s, p) /\ ks # {} THEN p + Max(ks) ELSE NoMatch

\* the alternation: the decimal branch first, the integer branch when it fails
MatchAt(s, p) ==
    LET d == DecimalMatch(s, p)
    IN  IF d # NoMatch THEN d ELSE IntegerMatch(s, p)

\* the scan of findall: the leftmost match from offset p, then on from its
\* end; each match is the pair <<start offset, end offset>>
RECURSIVE MatchSpans(_, _)
MatchSpans(s, p) ==
    LET e == MatchAt(s, p)
    IN  IF p >= Len(s) THEN <<>>
        ELSE IF e = NoMatch THEN MatchSpans(s, p + 1)
        ELSE <<<<p, e>>>> \o MatchSpans(s, e)

SpanText(s, span) == SubSeq(s, span[1] + 1, span[2])

re_findall(s) ==
    LET spans == MatchSpans(s, 0)
    IN  [i \in 1..Len(spans) |-> SpanText(s, spans[i])]

-----------------------------------------------------------------------------
(* The length filter and the prioritisation *)

MinScoreLen == 1
MaxScoreLen == 7

\* the window without its upper end
InLengthWindow_NoUpperEnd(num_str) == MinScoreLen <= Len(num_str)

InLengthWindow(num_str) == MinScoreLen <= Len(num_str) /\ Len(num_str) <= MaxScoreLen

LengthFilter(cands) == SelectSeq(cands, InLengthWindow)

HasPoint(str) == \E i \in 1..Len(str) : str[i] = Point
NoPoint(str) == ~HasPoint(str)

\* max(seq, key=len) on a non-empty list: the scan keeps the element it holds
\* unless a later one is strictly longer
RECURSIVE MaxScan(_, _, _)
MaxScan(seq, i, best) ==
    IF i > Len(seq) THEN best
    ELSE MaxScan(seq, i + 1, IF Len(seq[i]) > Len(best) THEN seq[i] ELSE best)

\* a max that lets a later element of the same length win
RECURSIVE MaxScanLast(_, _, _)
MaxScanLast(seq, i, best) ==
    IF i > Len(seq) THEN best
    ELSE MaxScanLast(seq, i + 1, IF Len(seq[i]) >= Len(best) THEN seq[i] ELSE best)

MaxByLen_LastWins(seq) == MaxScanLast(seq, 2, seq[1])

MaxByLen(seq) == MaxScan(seq, 2, seq[1])

\* the prioritisation with the two classes tried in the other order
SelectScore_IntegersFirst(cands) ==
    LET decimal_scores == SelectSeq(cands, HasPoint)
        integer_scores == SelectSeq(cands, NoPoint)
    IN  IF cands = <<>> THEN MSG_NO_SCORE
        ELSE IF integer_scores # <<>> THEN MaxScan(integer_scores, 2, integer_scores[1])
        ELSE IF decimal_scores # <<>> THEN MaxScan(decimal_scores, 2, decimal_scores[1])
        ELSE MSG_NO_SCORE

\* lines 129-143: final_score from final_score_candidates
SelectScore(cands) ==
    LET decimal_scores == SelectSeq(cands, HasPoint)
        integer_scores == SelectSeq(cands, NoPoint)
    IN  IF cands = <<>> THEN MSG_NO_SCORE
        ELSE IF decimal_scores # <<>> THEN MaxByLen(decimal_scores)
        ELSE IF integer_scores # <<>> THEN MaxByLen(integer_scores)
        ELSE MSG_NO_SCORE

\* " ".join(string_results)
RECURSIVE Join(_)
Join(frags) ==
    IF frags = <<>> THEN <<>>
    ELSE IF Len(frags) = 1 THEN frags[1]
    ELSE frags[1] \o <<Space>> \o Join(Tail(frags))

-----------------------------------------------------------------------------
(* What reader.readtext can return: a list of text fragments over the       *)
(* allowlist '0123456789.'.  The lists are drawn as the splits of every     *)
(* text over the drawn characters, so that their joins are every such text. *)

FirstSpace(t) ==
    IF \E i \in 1..Len(t) : t[i] = Space
    THEN CHOOSE i \in 1..Len(t) : t[i] = Space /\ \A j \in 1..(i - 1) : t[j] # Space
    ELSE 0

RECURSIVE SplitFragments(_)
SplitFragments(t) ==
    IF FirstSpace(t) = 0 THEN <<t>>
    ELSE <<SubSeq(t, 1, FirstSpace(t) - 1)>>
         \o SplitFragments(SubSeq(t, FirstSpace(t) + 1, Len(t)))

\* no fragment at all for the empty text
Fragments(t) == IF t = <<>> THEN <<>> ELSE SplitFragments(t)

TextsOver(chars, n) == UNION {[1..k -> chars] : k \in 0..n}

OneDigitChars == {"1", Point, Space}
TwoDigitChars == {"1", "2", Point, Space}

\* every fragment of the text is non-empty: no separator at either end and
\* no two separators in a row
NoEmptyFragment(t) ==
    /\ t # <<>> => t[1] # Space /\ t[Len(t)] # Space
    /\ \A i \in 1..(Len(t) - 1) : ~(t[i] = Space /\ t[i + 1] = Space)

\* The texts drawn for the selection heuristic.  Long texts have one digit
\* (the pattern does not tell digits apart) and non-empty fragments; short
\* texts have two digits, so that candidates of one length can differ, and
\* any fragments, empty ones included.
ScoreTexts(long, short) ==
    {t \in TextsOver(OneDigitChars, long) : NoEmptyFragment(t)}
        \cup TextsOver(TwoDigitChars, short)

-----------------------------------------------------------------------------
(* The crop rectangle, lines 40-68.  For the image sizes Python can hold,   *)
(* int(n * 0.5), int(n * 0.1) and int(n * 0.9) are the integer quotients.   *)

CropX1(width) == 0
CropX2(width) == width \div 2
CropY1(height) == height \div 10
CropY2(height) == (9 * height) \div 10

ClampLow(v) == IF v < 0 THEN 0 ELSE v
ClampHigh(limit, v) == IF v > limit THEN limit ELSE v

\* the validation with > where the code has >=
InvalidCrop_Strict(x1, y1, x2, y2) == x1 > x2 \/ y1 > y2

\* line 71
InvalidCrop(x1, y1, x2, y2) == x1 >= x2 \/ y1 >= y2

\* a test that lets the empty text through
TextFound_Always(text) == TRUE

\* line 105: the truth value of a string
TextFound(text) == text # <<>>

-----------------------------------------------------------------------------
(* read_game_score_custom_crop *)

ReaderIdle ==
    /\ h = 0 /\ w = 0
    /\ x1_crop = 0 /\ y1_crop = 0 /\ x2_crop = 0 /\ y2_crop = 0
    /\ sliced = FALSE /\ written = FALSE /\ ocr_called = FALSE
    /\ results = <<>> /\ full_ocr_text = <<>>
    /\ numbers_candidates = <<>> /\ final_score_candidates = <<>>
    /\ ret = Unset

\* auto_play.py is not running
AutoIdle ==
    /\ frame_count = 0 /\ child_frames = <<>> /\ canvas = <<>>
    /\ f_pc = "idle" /\ frames_arg = <<>> /\ call_stack = <<>>
    /\ retval = NoValue /\ probed = <<>>
    /\ m_pc = "idle" /\ log = <<>>
    /\ box = "unset" /\ browser = "none" /\ closings = 0

\* the call of the function
ReaderInit == r_pc = "start" /\ ReaderIdle /\ AutoIdle

Return(value) == ret' = value /\ r_pc' = "done"

\* lines 21-23
CheckExists ==
    /\ r_pc = "start"
    /\ UNCHANGED auto_vars
    /\ \E exists \in BOOLEAN :
          IF exists THEN r_pc' = "imread" /\ ret' = ret ELSE Return(PyNone)
    /\ UNCHANGED <<h, w, x1_crop, y1_crop, x2_crop, y2_crop, sliced, written,
                   ocr_called, results, full_ocr_text, numbers_candidates,
                   final_score_candidates>>

\* lines 25-30, cv2.imread gave no image
ImreadFails ==
    /\ r_pc = "imread"
    /\ UNCHANGED auto_vars
    /\ Return(PyNone)
    /\ UNCHANGED <<h, w, x1_crop, y1_crop, x2_crop, y2_crop, sliced, written,
                   ocr_called, results, full_ocr_text, numbers_candidates,
                   final_score_candidates>>

\* lines 25-30, cv2.imread gave an image of some height and width
ImreadLoads ==
    /\ r_pc = "imread"
    /\ UNCHANGED auto_vars
    /\ \E height \in 1..MaxDim, width \in 1..MaxDim : h' = height /\ w' = width
    /\ r_pc' = "crop"
    /\ UNCHANGED <<x1_crop, y1_crop, x2_crop, y2_crop, sliced, written,
                   ocr_called, results, full_ocr_text, numbers_candidates,
                   final_score_candidates, ret>>

\* lines 40-73: the rectangle, its clamping and its validation
Crop ==
    /\ r_pc = "crop"
    /\ UNCHANGED auto_vars
    /\ x1_crop' = ClampLow(CropX1(w))
    /\ y1_crop' = ClampLow(CropY1(h))
    /\ x2_crop' = ClampHigh(w, CropX2(w))
    /\ y2_crop' = ClampHigh(h, CropY2(h))
    /\ IF InvalidCrop(x1_crop', y1_crop', x2_crop', y2_crop')
       THEN Return(PyStr(MSG_INVALID_CROP))
       ELSE r_pc' = "slice" /\ ret' = ret
    /\ UNCHANGED <<h, w, sliced, written, ocr_called, results, full_ocr_text,
                   numbers_candidates, final_score_candidates>>

\* lines 76-81: the slice and the check of its shape
Slice ==
    /\ r_pc = "slice"
    /\ UNCHANGED auto_vars
    /\ sliced' = TRUE
    /\ IF y2_crop - y1_crop = 0 \/ x2_crop - x1_crop = 0
       THEN Return(PyStr(MSG_EMPTY_CROP))
       ELSE r_pc' = "imwrite" /\ ret' = ret
    /\ UNCHANGED <<h, w, x1_crop, y1_crop, x2_crop, y2_crop, written,
                   ocr_called, results, full_ocr_text, numbers_candidates,
                   final_score_candidates>>

\* lines 85-87
Imwrite ==
    /\ r_pc = "imwrite"
    /\ UNCHANGED auto_vars
    /\ written' = TRUE
    /\ r_pc' = "readtext"
    /\ UNCHANGED <<h, w, x1_crop, y1_crop, x2_crop, y2_crop, sliced,
                   ocr_called, results, full_ocr_text, numbers_candidates,
                   final_score_candidates, ret>>

\* lines 93-99, the recognition engine answers
ReadtextReturns ==
    /\ r_pc = "readtext"
    /\ UNCHANGED auto_vars
    /\ ocr_called' = TRUE
    /\ \E t \in TextsOver(TwoDigitChars, MaxOcrLen) : results' = Fragments(t)
    /\ r_pc' = "join"
    /\ UNCHANGED <<h, w, x1_crop, y1_crop, x2_crop, y2_crop, sliced, written,
                   full_ocr_text, numbers_candidates, final_score_candidates, ret>>

\* lines 93-99 and 155-157, cvtColor or readtext raises
ReadtextRaises ==
    /\ r_pc = "readtext"
    /\ UNCHANGED auto_vars
    /\ ocr_called' = TRUE
    /\ Return(PyNone)
    /\ UNCHANGED <<h, w, x1_crop, y1_crop, x2_crop, y2_crop, sliced, written,
                   results, full_ocr_text, numbers_candidates,
                   final_score_candidates>>

\* lines 102-103
JoinText ==
    /\ r_pc = "join"
    /\ UNCHANGED auto_vars
    /\ full_ocr_text' = Join(results)
    /\ r_pc' = "extract"
    /\ UNCHANGED <<h, w, x1_crop, y1_crop, x2_crop, y2_crop, sliced, written,
                   ocr_called, results, numbers_candidates,
                   final_score_candidates, ret>>

\* lines 105-153
Extract ==
    /\ r_pc = "extract"
    /\ UNCHANGED auto_vars
    /\ IF TextFound(full_ocr_text)
       THEN /\ numbers_candidates' = re_findall(full_ocr_text)
            /\ final_score_candidates' = LengthFilter(numbers_candidates')
            /\ Return(PyStr(SelectScore(final_score_candidates')))
       ELSE /\ UNCHANGED <<numbers_candidates, final_score_candidates>>
            /\ Return(PyStr(MSG_NO_TEXT))
    /\ UNCHANGED <<h, w, x1_crop, y1_crop, x2_crop, y2_crop, sliced, written,
                   ocr_called, results, full_ocr_text>>

ReaderNext ==
    \/ CheckExists
    \/ ImreadFails
    \/ ImreadLoads
    \/ Crop
    \/ Slice
    \/ Imwrite
    \/ ReadtextReturns
    \/ ReadtextRaises
    \/ JoinText
    \/ Extract

\* the whole function, from its call
SpecReader == ReaderInit /\ [][ReaderNext]_vars

\* the post-processing of the recognised text, lines 105-153, from the state
\* in which the fragments reader.readtext returned have just been joined
ScoreInit ==
    /\ r_pc = "extract"
    /\ h = MaxDim /\ w = MaxDim
    /\ x1_crop = ClampLow(CropX1(w)) /\ y1_crop = ClampLow(CropY1(h))
    /\ x2_crop = ClampHigh(w, CropX2(w)) /\ y2_crop = ClampHigh(h, CropY2(h))
    /\ sliced = TRUE /\ written = TRUE /\ ocr_called = TRUE
    /\ \E t \in ScoreTexts(MaxTextLen, MaxTwoDigitLen) : results = Fragments(t)
    /\ full_ocr_text = Join(results)
    /\ numbers_candidates = <<>> /\ final_score_candidates = <<>>
    /\ ret = Unset
    /\ AutoIdle

ScoreNext == Extract

SpecScore == ScoreInit /\ [][ScoreNext]_vars

-----------------------------------------------------------------------------
(* The page: a tree of frames.  Frame 1 is the main frame; a frame attaches  *)
(* after its parent, so its parent has a smaller number; frame.child_frames  *)
(* and page.frames list frames in the order they attached.                   *)

Outcomes == {"visible", "hidden", "raises"}

Min(S) == CHOOSE x \in S : \A y \in S : x <= y

RECURSIVE Ascending(_)
Ascending(S) == IF S = {} THEN <<>> ELSE <<Min(S)>> \o Ascending(S \ {Min(S)})

ParentMaps(n) == {par \in [2..n -> 1..n] : \A i \in 2..n : par[i] < i}

ChildLists(n, par) == [f \in 1..n |-> Ascending({i \in 2..n : par[i] = f})]

\* the frames of the page listed from the last one to the main frame
AllFrames_Reversed == [i \in 1..frame_count |-> frame_count + 1 - i]

\* page.frames
AllFrames == [i \in 1..frame_count |-> i]

PageInit ==
    /\ frame_count \in 1..MaxFrames
    /\ \E par \in ParentMaps(frame_count) : child_frames = ChildLists(frame_count, par)
    /\ canvas \in [1..frame_count -> Outcomes]

-----------------------------------------------------------------------------
(* find_canvas_in_frames, lines 5-32.  An activation is the list it was      *)
(* given, the index of the for loop and the place in the loop body: "probe"  *)
(* (lines 17-24), "children" (lines 27-28) or "await" (line 29).             *)

Activation(frames) == [frames |-> frames, i |-> 1, at |-> "probe"]

Top == call_stack[Len(call_stack)]
Popped == SubSeq(call_stack, 1, Len(call_stack) - 1)
WithTop(rec) == [call_stack EXCEPT ![Len(call_stack)] = rec]

CurrentFrame == Top.frames[Top.i]

\* a probe that takes the existence of the locator for visibility
IsVisible_Exists(outcome) == TRUE

\* line 20: await canvas.is_visible(), when it does not raise
IsVisible(outcome) == outcome = "visible"

\* lines 30-31: the truth value of a result
Truthy(value) == value.t = "tuple"

\* a handler that goes on to the next frame of the list
AfterFailedProbe_NextFrame(rec) == [rec EXCEPT !.i = @ + 1]

\* lines 22-24: except Exception: pass, and the loop body goes on at line 27
AfterFailedProbe(rec) == [rec EXCEPT !.at = "children"]

\* a loop that goes on without the children
AfterProbe_NoDescent(rec) == [rec EXCEPT !.i = @ + 1]

\* line 20 answered False: the loop body goes on at line 27
AfterProbe(rec) == [rec EXCEPT !.at = "children"]

Running == f_pc = "running" /\ call_stack # <<>>

\* return value: the activation ends; the outermost one ends the search
\* a return that hands the value over and leaves the call unfinished
Finish_KeepsRunning(value) ==
    /\ call_stack' = Popped
    /\ retval' = value
    /\ f_pc' = "running"

Finish(value) ==
    /\ call_stack' = Popped
    /\ retval' = value
    /\ f_pc' = IF Len(call_stack) = 1 THEN "returned" ELSE "running"

\* lines 19-21: the canvas of the frame is visible
ProbeVisible ==
    /\ Running /\ Top.at = "probe" /\ Top.i <= Len(Top.frames)
    /\ canvas[CurrentFrame] # "raises" /\ IsVisible(canvas[CurrentFrame])
    /\ probed' = Append(probed, CurrentFrame)
    /\ Finish(SearchPair(CurrentFrame))
    /\ UNCHANGED <<frames_arg, page_vars, main_vars, reader_vars>>

\* lines 19-20: the canvas of the frame is not visible
ProbeHidden ==
    /\ Running /\ Top.at = "probe" /\ Top.i <= Len(Top.frames)
    /\ canvas[CurrentFrame] # "raises" /\ ~IsVisible(canvas[CurrentFrame])
    /\ probed' = Append(probed, CurrentFrame)
    /\ call_stack' = WithTop(AfterProbe(Top))
    /\ UNCHANGED <<f_pc, retval, frames_arg, page_vars, main_vars, reader_vars>>

\* lines 19-24: the locator or is_visible raises
ProbeRaises ==
    /\ Running /\ Top.at = "probe" /\ Top.i <= Len(Top.frames)
    /\ canvas[CurrentFrame] = "raises"
    /\ probed' = Append(probed, CurrentFrame)
    /\ call_stack' = WithTop(AfterFailedProbe(Top))
    /\ UNCHANGED <<f_pc, retval, frames_arg, page_vars, main_vars, reader_vars>>

\* lines 27-29: the frame has children, the search is called on them
EnterChildren ==
    /\ Running /\ Top.at = "children"
    /\ child_frames[CurrentFrame] # <<>>
    /\ call_stack' = Append(WithTop([Top EXCEPT !.at = "await"]),
                            Activation(child_frames[CurrentFrame]))
    /\ UNCHANGED <<f_pc, retval, probed, frames_arg, page_vars, main_vars, reader_vars>>

\* lines 27-28: the frame has no children, the loop takes the next frame
NoChildren ==
    /\ Running /\ Top.at = "children"
    /\ child_frames[CurrentFrame] = <<>>
    /\ call_stack' = WithTop([Top EXCEPT !.i = @ + 1, !.at = "probe"])
    /\ UNCHANGED <<f_pc, retval, probed, frames_arg, page_vars, main_vars, reader_vars>>

\* lines 29-31: the search of the children found a canvas, it is returned
ChildFound ==
    /\ Running /\ Top.at = "await"
    /\ Truthy(retval)
    /\ Finish(retval)
    /\ UNCHANGED <<probed, frames_arg, page_vars, main_vars, reader_vars>>

\* lines 29-30: the search of the children found none, the loop takes the
\* next frame
ChildNotFound ==
    /\ Running /\ Top.at = "await"
    /\ ~Truthy(retval)
    /\ call_stack' = WithTop([Top EXCEPT !.i = @ + 1, !.at = "probe"])
    /\ UNCHANGED <<f_pc, retval, probed, frames_arg, page_vars, main_vars, reader_vars>>

\* line 32: the list is exhausted
LoopEnds ==
    /\ Running /\ Top.at = "probe" /\ Top.i > Len(Top.frames)
    /\ Finish(SearchNone)
    /\ UNCHANGED <<probed, frames_arg, page_vars, main_vars, reader_vars>>

SearchNext ==
    \/ ProbeVisible
    \/ ProbeHidden
    \/ ProbeRaises
    \/ EnterChildren
    \/ NoChildren
    \/ ChildFound
    \/ ChildNotFound
    \/ LoopEnds

\* a call of find_canvas_in_frames on a page: on page.frames, as main calls
\* it, or on the main frame alone
FramesInit ==
    /\ PageInit
    /\ frames_arg \in {AllFrames, <<1>>}
    /\ call_stack = <<Activation(frames_arg)>>
    /\ f_pc = "running"
    /\ retval = NoValue /\ probed = <<>>
    /\ m_pc = "idle" /\ log = <<>>
    /\ box = "unset" /\ browser = "none" /\ closings = 0
    /\ r_pc = "idle" /\ ReaderIdle

SpecFrames == FramesInit /\ [][SearchNext]_vars

\* the same calls on an event loop that keeps running the coroutine: every
\* await of lines 20 and 29 is resumed, by a value or by an exception
SpecFramesFair == FramesInit /\ [][SearchNext]_vars /\ WF_vars(SearchNext)

-----------------------------------------------------------------------------
(* main, lines 34-106.  A position of main is named after the step that is   *)
(* about to run; log holds the steps that have run.                          *)

\* the straight path through main, in program order
MainOrder ==
    <<"launch",             \* lines 41-42
      "navigate",           \* lines 46-50
      "load_wait",          \* line 53
      "canvas_search",      \* lines 56-57, the call
      "searching",          \* line 57, the await
      "screenshot_before",  \* line 69
      "click_first",        \* line 77
      "wait",               \* line 81
      "bounding_box",       \* line 84
      "click_second",       \* line 95
      "render_wait",        \* line 99
      "screenshot_after",   \* line 102
      "close",              \* line 105
      "done">>

\* the same path with the first click ahead of the first screenshot
ClickFirstOrder ==
    <<"launch", "navigate", "load_wait", "canvas_search", "searching",
      "click_first", "screenshot_before", "wait", "bounding_box",
      "click_second", "render_wait", "screenshot_after", "close", "done">>

NextIn(order, pc) == order[1 + CHOOSE k \in 1..Len(order) : order[k] = pc]

After_ClickFirst(pc) == NextIn(ClickFirstOrder, pc)

\* the position that follows pc on the straight path
After(pc) == NextIn(MainOrder, pc)

\* the calls into the browser that can raise; the exception leaves main
BrowserCalls ==
    {"navigate", "screenshot_before", "click_first", "bounding_box",
     "click_second", "screenshot_after"}

\* the browser after some steps: the launch opens it, browser.close()
\* closes it
RECURSIVE BrowserAfter(_, _)
BrowserAfter(b, steps) ==
    IF steps = <<>> THEN b
    ELSE BrowserAfter(IF Head(steps) = "launch" THEN "open"
                      ELSE IF Head(steps) = "close" THEN "closed"
                      ELSE b,
                      Tail(steps))

\* how many of the steps close an open browser
RECURSIVE ClosingsIn(_, _)
ClosingsIn(b, steps) ==
    IF steps = <<>> THEN 0
    ELSE (IF Head(steps) = "close" /\ b = "open" THEN 1 ELSE 0)
         + ClosingsIn(BrowserAfter(b, <<Head(steps)>>), Tail(steps))

\* main is left by a return or by an exception
Left(pc) == pc \in {"done", "raised"}

\* some steps are run and logged and main goes to position next.  Leaving
\* main leaves the block of line 39: async_playwright() stops Playwright,
\* and a browser that is still open goes down with it.
Do(steps, next) ==
    /\ log' = log \o steps
    /\ m_pc' = next
    /\ browser' = IF Left(next) THEN "closed" ELSE BrowserAfter(browser, steps)
    /\ closings' = closings + ClosingsIn(browser, steps)
                     + (IF Left(next) /\ BrowserAfter(browser, steps) = "open" THEN 1 ELSE 0)

\* a step of the straight path that is run and logged
Step(pc) ==
    /\ m_pc = pc
    /\ Do(<<pc>>, After(pc))

\* lines 60-62: what runs when the search found no canvas
NotFoundBranch == <<"close">>

\* the branch of lines 85-88 returning with no browser.close()
BoxMissingBranch_NoClose == <<"bounding_box">>

\* lines 84-88: what runs when the canvas has no bounding box
BoxMissingBranch == <<"bounding_box", "close">>

Launch == Step("launch") /\ UNCHANGED <<box, page_vars, search_vars, reader_vars>>
Navigate == Step("navigate") /\ UNCHANGED <<box, page_vars, search_vars, reader_vars>>
LoadWait == Step("load_wait") /\ UNCHANGED <<box, page_vars, search_vars, reader_vars>>

\* lines 56-57: find_canvas_in_frames is called on page.frames
CallSearch ==
    /\ Step("canvas_search")
    /\ frames_arg' = AllFrames
    /\ call_stack' = <<Activation(AllFrames)>>
    /\ f_pc' = "running"
    /\ UNCHANGED <<box, retval, probed, page_vars, reader_vars>>

\* lines 59-62: the search returned None
CanvasNotFound ==
    /\ m_pc = "searching" /\ f_pc = "returned"
    /\ ~Truthy(retval)
    /\ Do(NotFoundBranch, "done")
    /\ UNCHANGED <<box, page_vars, search_vars, reader_vars>>

\* lines 59-66: the search returned a frame and its canvas
CanvasFound ==
    /\ m_pc = "searching" /\ f_pc = "returned"
    /\ Truthy(retval)
    /\ Do(<<>>, After("searching"))
    /\ UNCHANGED <<box, page_vars, search_vars, reader_vars>>

ScreenshotBefore == Step("screenshot_before") /\ UNCHANGED <<box, page_vars, search_vars, reader_vars>>
ClickFirst == Step("click_first") /\ UNCHANGED <<box, page_vars, search_vars, reader_vars>>
Wait == Step("wait") /\ UNCHANGED <<box, page_vars, search_vars, reader_vars>>

\* lines 84-85: the canvas has a bounding box
BoundingBoxReturned ==
    /\ Step("bounding_box")
    /\ box' = "box"
    /\ UNCHANGED <<page_vars, search_vars, reader_vars>>

\* lines 84-88: the canvas has no bounding box
BoundingBoxMissing ==
    /\ m_pc = "bounding_box"
    /\ box' = "none"
    /\ Do(BoxMissingBranch, "done")
    /\ UNCHANGED <<page_vars, search_vars, reader_vars>>

ClickSecond == Step("click_second") /\ UNCHANGED <<box, page_vars, search_vars, reader_vars>>
RenderWait == Step("render_wait") /\ UNCHANGED <<box, page_vars, search_vars, reader_vars>>
ScreenshotAfter == Step("screenshot_after") /\ UNCHANGED <<box, page_vars, search_vars, reader_vars>>
Close == Step("close") /\ UNCHANGED <<box, page_vars, search_vars, reader_vars>>

\* a call into the browser raises: nothing in main catches it
BrowserCallRaises ==
    /\ m_pc \in BrowserCalls
    /\ Do(<<>>, "raised")
    /\ UNCHANGED <<box, page_vars, search_vars, reader_vars>>

MainNext ==
    \/ Launch
    \/ Navigate
    \/ LoadWait
    \/ CallSearch
    \/ SearchNext
    \/ CanvasNotFound
    \/ CanvasFound
    \/ ScreenshotBefore
    \/ ClickFirst
    \/ Wait
    \/ BoundingBoxReturned
    \/ BoundingBoxMissing
    \/ ClickSecond
    \/ RenderWait
    \/ ScreenshotAfter
    \/ Close
    \/ BrowserCallRaises

\* a run of main on a page
MainInit ==
    /\ PageInit
    /\ m_pc = "launch" /\ log = <<>>
    /\ box = "unset" /\ browser = "none" /\ closings = 0
    /\ f_pc = "idle" /\ frames_arg = <<>> /\ call_stack = <<>>
    /\ retval = NoValue /\ probed = <<>>
    /\ r_pc = "idle" /\ ReaderIdle

SpecMain == MainInit /\ [][MainNext]_vars

-----------------------------------------------------------------------------
(* Properties of the score selection, checked under SpecScore *)

Range(seq) == {seq[i] : i \in 1..Len(seq)}

ReaderDone == r_pc = "done"

\* the candidates of a list that hold a decimal point, and those that do not
DecimalCands(cands) == SelectSeq(cands, HasPoint)
IntegerCands(cands) == SelectSeq(cands, NoPoint)

\* the maximal digit runs of a text, each as <<offset, length>>
DigitRuns(text) ==
    {<<p, DigitRun(text, p)>> : p \in {q \in 0..(Len(text) - 1) :
        IsDigit(CharAfter(text, q)) /\ ~IsDigit(CharAfter(text, q - 1))}}

HasDigit(text) == \E i \in 1..Len(text) : IsDigit(text[i])

\* C1: when a candidate inside the length window [1,7] has a decimal point,
\* the returned score is a candidate with a decimal point, whatever integer
\* candidates are inside the window too.
C1_DecimalWins ==
    (ReaderDone /\ DecimalCands(final_score_candidates) # <<>>)
        => /\ ret.t = "str"
           /\ ret.v \in Range(final_score_candidates)
           /\ HasPoint(ret.v)

\* a decimal candidate was returned although an integer candidate inside the
\* window is longer than every decimal candidate
C1_Witness ==
    /\ ReaderDone
    /\ DecimalCands(final_score_candidates) # <<>>
    /\ HasPoint(ret.v)
    /\ \E i \in 1..Len(final_score_candidates) :
          /\ NoPoint(final_score_candidates[i])
          /\ \A j \in 1..Len(final_score_candidates) :
                HasPoint(final_score_candidates[j])
                    => Len(final_score_candidates[j]) < Len(final_score_candidates[i])

\* the class the score is chosen from: the decimal candidates inside the
\* window if there are any, the integer candidates otherwise
ChosenClass ==
    IF DecimalCands(final_score_candidates) # <<>>
    THEN DecimalCands(final_score_candidates)
    ELSE IntegerCands(final_score_candidates)

\* C2: the returned score is a candidate of maximal length of the chosen
\* class, the first of that length in the text; for a text of digit runs and
\* separators with a run of at most 7 digits it is the longest such run.
C2_LongestFirst ==
    ReaderDone
        => LET class == ChosenClass
               runs == DigitRuns(full_ocr_text)
           IN  /\ final_score_candidates # <<>>
                     => \E i \in 1..Len(class) :
                           /\ ret = PyStr(class[i])
                           /\ \A j \in 1..Len(class) : Len(class[j]) <= Len(class[i])
                           /\ \A j \in 1..(i - 1) : Len(class[j]) < Len(class[i])
               /\ (/\ \A i \in 1..Len(full_ocr_text) : full_ocr_text[i] # Point
                   /\ \E run \in runs : run[2] <= 7)
                     => \E run \in runs :
                           /\ run[2] <= 7
                           /\ ret = PyStr(SubSeq(full_ocr_text, run[1] + 1, run[1] + run[2]))
                           /\ \A other \in runs :
                                 other[2] <= 7 => /\ other[2] <= run[2]
                                                  /\ (other[2] = run[2] => other[1] >= run[1])

\* two different candidates share the maximal length and the first was returned
C2_Witness ==
    /\ ReaderDone
    /\ \E i, j \in 1..Len(ChosenClass) :
          /\ i < j
          /\ ret = PyStr(ChosenClass[i])
          /\ ChosenClass[j] # ChosenClass[i]
          /\ Len(ChosenClass[j]) = Len(ChosenClass[i])

\* C3: for a non-empty text the returned value is the sentinel or one of the
\* extracted candidates of length 1..7; a text whose candidates are all
\* longer than 7 gives the sentinel.
C3_LengthWindow ==
    (ReaderDone /\ full_ocr_text # <<>>)
        => /\ \/ ret = PyStr(MSG_NO_SCORE)
              \/ /\ ret.t = "str"
                 /\ ret.v \in Range(numbers_candidates)
                 /\ 1 <= Len(ret.v) /\ Len(ret.v) <= 7
           /\ (\A i \in 1..Len(numbers_candidates) : Len(numbers_candidates[i]) > 7)
                 => ret = PyStr(MSG_NO_SCORE)

\* the only candidate of the text is well formed and longer than 7
C3_Witness ==
    /\ ReaderDone
    /\ Len(numbers_candidates) = 1
    /\ Len(numbers_candidates[1]) > 7
    /\ ret = PyStr(MSG_NO_SCORE)

\* C4 as stated: every text without a digit, the empty text included, gives
\* "No suitable score found."
C4_AsStated ==
    (ReaderDone /\ ~HasDigit(full_ocr_text)) => ret = PyStr(MSG_NO_SCORE)

\* C4, amended: a non-empty text without a digit gives "No suitable score
\* found."; the empty text gives "No text found by EasyOCR."
C4_NoDigits ==
    /\ (ReaderDone /\ ~HasDigit(full_ocr_text) /\ full_ocr_text # <<>>)
          => ret = PyStr(MSG_NO_SCORE)
    /\ (ReaderDone /\ full_ocr_text = <<>>) => ret = PyStr(MSG_NO_TEXT)

\* a text of points and separators only gave the sentinel
C4_Witness ==
    /\ ReaderDone
    /\ \E i, j \in 1..Len(full_ocr_text) :
          full_ocr_text[i] = Point /\ full_ocr_text[j] = Space
    /\ ~HasDigit(full_ocr_text)
    /\ ret = PyStr(MSG_NO_SCORE)

\* the matches behind numbers_candidates, each as <<start offset, end offset>>
CandidateSpans == MatchSpans(full_ocr_text, 0)

\* digits, one point, two digits
DecimalShape(str) ==
    /\ Len(str) >= 4
    /\ str[Len(str) - 2] = Point
    /\ \A i \in 1..Len(str) : i # Len(str) - 2 => IsDigit(str[i])

\* the places <<p, k, m>> where a maximal digit run of k digits at offset p
\* is followed by a point and then by exactly m digits
PointedRuns(text) ==
    {<<run[1], run[2], DigitRun(text, run[1] + run[2] + 1)>> :
        run \in {r \in DigitRuns(text) : CharAfter(text, r[1] + r[2]) = Point}}

\* the characters after offset a up to offset b are a maximal run of
\* characters other than the separator
IsToken(text, a, b) ==
    /\ a < b
    /\ \A i \in (a + 1)..b : text[i] # Space
    /\ CharAfter(text, a - 1) \in {"", Space}
    /\ CharAfter(text, b) \in {"", Space}

-----------------------------------------------------------------------------
(* Properties of the whole function, checked under SpecReader *)

\* the image was loaded and the crop rectangle computed and validated
CropComputed == w > 0 /\ r_pc # "crop"

\* C8: the crop boundaries lie in [0,W] x [0,H]; the image is sliced, the
\* cropped file written and the recognition engine called only with
\* 0 <= x1 < x2 <= W and 0 <= y1 < y2 <= H; an empty clamped rectangle
\* returns "Invalid custom crop region." and none of the three happens.
C8_CropSafe ==
    /\ 0 <= x1_crop /\ x1_crop <= w /\ 0 <= x2_crop /\ x2_crop <= w
    /\ 0 <= y1_crop /\ y1_crop <= h /\ 0 <= y2_crop /\ y2_crop <= h
    /\ (sliced \/ written \/ ocr_called)
          => /\ 0 <= x1_crop /\ x1_crop < x2_crop /\ x2_crop <= w
             /\ 0 <= y1_crop /\ y1_crop < y2_crop /\ y2_crop <= h
    /\ (CropComputed /\ (x1_crop >= x2_crop \/ y1_crop >= y2_crop))
          => /\ r_pc = "done"
             /\ ret = PyStr(MSG_INVALID_CROP)
             /\ ~sliced /\ ~written /\ ~ocr_called

\* an image whose clamped rectangle is empty was turned down
C8_Witness ==
    /\ CropComputed
    /\ x1_crop >= x2_crop \/ y1_crop >= y2_crop
    /\ ret = PyStr(MSG_INVALID_CROP)
    /\ ~sliced /\ ~written /\ ~ocr_called

\* C10: the function returns a string on every path (the docstring of lines
\* 17-19: the score, or an error message).
C10_ReturnsString == ReaderDone => ret.t = "str"

-----------------------------------------------------------------------------
(* Properties of find_canvas_in_frames, checked under SpecFrames *)

\* depth-first pre-order of the trees under a list of frames: a frame, then
\* the pre-order of its children, then the rest of the list
RECURSIVE PreOrder(_)
PreOrder(frames) ==
    IF frames = <<>> THEN <<>>
    ELSE <<Head(frames)>> \o PreOrder(child_frames[Head(frames)]) \o PreOrder(Tail(frames))

\* the first frame of a sequence whose canvas is visible, as the search
\* returns it, or None
FirstVisible(order) ==
    IF \E k \in 1..Len(order) : canvas[order[k]] = "visible"
    THEN SearchPair(order[Min({k \in 1..Len(order) : canvas[order[k]] = "visible"})])
    ELSE SearchNone

SearchReturned == f_pc = "returned"

\* C6: the search returns the first frame in depth-first pre-order of the
\* given list whose first canvas is visible, passing over frames whose canvas
\* is not visible, and None when no frame has a visible canvas.
C6_FirstVisibleInPreOrder ==
    SearchReturned => retval = FirstVisible(PreOrder(frames_arg))

\* the canvas returned is in a nested frame, a frame with a hidden canvas was
\* passed over, and a frame that attached earlier but comes later in
\* pre-order has a visible canvas too
C6_Witness ==
    /\ SearchReturned
    /\ Truthy(retval)
    /\ retval.frame # 1
    /\ \E g \in 1..frame_count : g < retval.frame /\ canvas[g] = "visible"
    /\ \E k \in 1..Len(probed) : canvas[probed[k]] = "hidden"

IsPrefix(a, b) == Len(a) <= Len(b) /\ a = SubSeq(b, 1, Len(a))

\* C7: a probe that raises counts as no match for that frame only: the
\* frames are probed in pre-order whatever raises, a search that returns None
\* has probed every frame, and a visible canvas after or below a frame whose
\* probe raised is still returned.
C7_ProbeErrorsSwallowed ==
    f_pc \in {"running", "returned"}
        => LET order == PreOrder(frames_arg)
           IN  /\ IsPrefix(probed, order)
               /\ (SearchReturned /\ retval = SearchNone) => probed = order
               /\ SearchReturned
                     => \A k \in 1..Len(order) :
                           (/\ canvas[order[k]] = "raises"
                            /\ \E j \in (k + 1)..Len(order) : canvas[order[j]] = "visible")
                               => Truthy(retval) /\ canvas[retval.frame] = "visible"

\* the canvas returned is in a child of a frame whose probe raised
C7_Witness ==
    /\ SearchReturned
    /\ Truthy(retval)
    /\ \E g \in 1..frame_count :
          /\ canvas[g] = "raises"
          /\ \E c \in 1..Len(child_frames[g]) : child_frames[g][c] = retval.frame
          /\ \E k \in 1..Len(probed) : probed[k] = g

-----------------------------------------------------------------------------
(* Properties of main, checked under SpecMain *)

\* the steps C9 names, in the order it names them
NamedSteps ==
    <<"navigate", "load_wait", "canvas_search", "screenshot_before",
      "click_first", "wait", "click_second", "screenshot_after", "close">>

IsNamedStep(step) == \E k \in 1..Len(NamedSteps) : NamedSteps[k] = step

Rank(step) == CHOOSE k \in 1..Len(NamedSteps) : NamedSteps[k] = step

\* step has run, and it was the k-th step of the run
RanAt(step, k) == k \in 1..Len(log) /\ log[k] = step

Ran(step) == \E k \in 1..Len(log) : log[k] = step

\* C9: the named steps run in the order navigate, load wait, canvas search,
\* pre-click screenshot, first click, wait, second click, post-click
\* screenshot, close, each at most once; a click or a screenshot runs only
\* after the search has returned a canvas; the pre-click screenshot runs
\* before the first click, the post-click screenshot after both clicks, and
\* nothing runs after close.
C9_StepOrder ==
    m_pc # "idle"
        => LET named == SelectSeq(log, IsNamedStep)
           IN  /\ \A i, j \in 1..Len(named) : i < j => Rank(named[i]) < Rank(named[j])
               /\ \A k \in 1..Len(log) :
                     log[k] \in {"screenshot_before", "click_first", "click_second",
                                 "screenshot_after"}
                         => /\ \E j \in 1..(k - 1) : log[j] = "canvas_search"
                            /\ f_pc = "returned" /\ Truthy(retval)
               /\ \A k \in 1..Len(log) :
                     log[k] = "click_first"
                         => \E j \in 1..(k - 1) : log[j] = "screenshot_before"
               /\ \A k \in 1..Len(log) :
                     log[k] = "screenshot_after"
                         => \E i, j \in 1..(k - 1) :
                               i < j /\ log[i] = "click_first" /\ log[j] = "click_second"
               /\ \A k \in 1..Len(log) : log[k] = "close" => k = Len(log)
               /\ Ran("close") => m_pc = "done"

\* a run through all nine named steps, on a page whose canvas was found in a
\* frame other than the main frame
C9_Witness ==
    /\ m_pc = "done"
    /\ SelectSeq(log, IsNamedStep) = NamedSteps
    /\ Truthy(retval) /\ retval.frame # 1

\* how many times main has run a step
Times(step) == Cardinality({k \in 1..Len(log) : log[k] = step})

IsScreenshotOrClick(step) ==
    step \in {"screenshot_before", "click_first", "click_second", "screenshot_after"}

SearchResults == {SearchNone} \cup {SearchPair(f) : f \in 1..frame_count}

\* C12: on every frame tree, whatever the probes answer, the call eventually
\* returns, and returns a (frame, canvas) pair or None.
C12_Terminates ==
    <>(f_pc = "returned" /\ call_stack = <<>> /\ retval \in SearchResults)

\* the call on all the frames of the largest page, a chain of frames, has
\* returned None after a probe raised and frames were probed again
C12_Witness ==
    /\ f_pc = "returned" /\ call_stack = <<>> /\ retval = SearchNone
    /\ frames_arg = AllFrames /\ frame_count = MaxFrames
    /\ \A f \in 1..(frame_count - 1) : child_frames[f] = <<f + 1>>
    /\ \E f \in 1..frame_count : canvas[f] = "raises"
    /\ Len(probed) > frame_count

\* the list holding only the main frame
MainFrameOnly == <<1>>

\* C13: the list of all frames that main passes starts with the main frame and
\* every frame of it is in the tree under the main frame; with probe answers
\* that do not change, the call on that list and the call on the main frame
\* alone return the same value: the first visible canvas in the pre-order of
\* the tree under the main frame, or None.
C13_FlatListSameAsMainFrame ==
    /\ frames_arg = AllFrames
           => /\ Head(frames_arg) = 1
              /\ Range(frames_arg) = Range(PreOrder(MainFrameOnly))
    /\ (SearchReturned /\ frames_arg \in {AllFrames, MainFrameOnly})
           => retval = FirstVisible(PreOrder(MainFrameOnly))

\* the call on all the frames of a page of several frames has returned after
\* probing some frame a second time
C13_Witness ==
    /\ SearchReturned
    /\ frames_arg = AllFrames /\ frame_count > 1
    /\ \E j, k \in 1..Len(probed) : j < k /\ probed[j] = probed[k]
    /\ retval = FirstVisible(PreOrder(MainFrameOnly))

=============================================================================
